---- MODULE Spec2Model ----
(***************************************************************************)
(* A model of the getresponse client library: the entity mappers           *)
(* (account.py, campaign.py, contact.py, custom_field.py, tag.py), the     *)
(* request dispatcher GetResponse._request / _create_obj, the five         *)
(* paginated list calls and the contact search aggregator                  *)
(* get_all_contacts (client.py).                                           *)
(*                                                                         *)
(* Python values are tagged records so that values of different Python     *)
(* types stay comparable:                                                  *)
(*   - values of the data plane (JSON values of a payload, attributes of   *)
(*     an entity) are [k |-> <type>, v |-> <string>];                      *)
(*   - values of the paging arguments (per_page, page, and the values of   *)
(*     the params mapping) are [k |-> <type>, n |-> <integer>].            *)
(* A mapping (a dict) is a function whose domain is its set of keys.       *)
(***************************************************************************)
EXTENDS Integers, Sequences, FiniteSets, TLC

VARIABLES
    pc,      \* position of the client call: idle, fetch, done, raised
    call,    \* the call the caller made: operation and arguments as passed
    frame,   \* locals of the running paginated call (one of the five loops)
    agg,     \* locals of get_all_contacts while it runs
    reqs,    \* HTTP requests issued so far, in issue order
    resps,   \* HTTP responses received so far, in order
    ret,     \* what the call returned or raised
    fin,     \* input of the pure function under check (mapper / dispatcher)
    fout     \* its result

vars == <<pc, call, frame, agg, reqs, resps, ret, fin, fout>>

(***************************************************************************)
(* Data plane values.                                                      *)
(***************************************************************************)
None == [k |-> "None", v |-> ""]
False == [k |-> "False", v |-> ""]
True == [k |-> "True", v |-> ""]
Str(s) == [k |-> "str", v |-> s]
\* A JSON object {"campaignId": s} nested in a contact payload.
CampaignObj(s) == [k |-> "campaign", v |-> s]
\* A nested JSON object that has no campaignId key.
CampaignObjNoId == [k |-> "campaign_noid", v |-> ""]
\* The structured timestamp dateutil.parser.parse returns for a date string.
DateTime(s) == [k |-> "datetime", v |-> s]

Range(f) == {f[x] : x \in DOMAIN f}
Without(m, key) == [x \in (DOMAIN m) \ {key} |-> m[x]]
With(m, key, value) == [x \in (DOMAIN m) \cup {key} |-> IF x = key THEN value ELSE m[x]]
EmptyMap == [x \in {} |-> None]

\* Exceptions and entities are records; an exception has the field exc.
Exc(name) == [exc |-> name]
IsExc(r) == "exc" \in DOMAIN r

\* The strings dateutil can parse.
DateStrings == {"2019-05-01T10:00:00+0000"}

\* dateutil.parser.parse: a structured timestamp, or ValueError.
dateutil_parse(value) ==
    IF value.k = "str" /\ value.v \in DateStrings
    THEN DateTime(value.v)
    ELSE Exc("ValueError")

(***************************************************************************)
(* Entity mappers.                                                         *)
(***************************************************************************)
none_to_false_identity(value) == value

none_to_false(value) == IF value = None THEN False ELSE value

\* wire key -> attribute name, in the order of the if-chains of _create.
AccountKeys ==
    [firstName |-> "first_name", lastName |-> "last_name", email |-> "email",
     phone |-> "phone", companyName |-> "company_name", state |-> "state",
     city |-> "city", zipCode |-> "zip_code", countryCode |-> "country_code",
     industryTag |-> "industry_tag", numberOfEmployees |-> "number_of_employees",
     timeFormat |-> "time_format", href |-> "href"]

CampaignKeys ==
    [href |-> "href", name |-> "name", languageCode |-> "language_code",
     isDefault |-> "is_default", createdOn |-> "created_on",
     description |-> "description", confirmation |-> "confirmation",
     profile |-> "profile", postal |-> "postal", optinTypes |-> "opting_types",
     subscriptionNotifications |-> "subscription_notifications"]

ContactKeys ==
    [href |-> "href", name |-> "name", email |-> "email", note |-> "note",
     dayOfCycle |-> "day_of_cycle", origin |-> "origin", createdOn |-> "created_on",
     changedOn |-> "changed_on", campaign |-> "campaign", timeZone |-> "timezone",
     ipAddress |-> "ip_address", activities |-> "activities", scoring |-> "scoring",
     customFieldValues |-> "custom_field_values", tags |-> "tags",
     engagementScore |-> "engagement_score"]

CustomFieldKeys ==
    [href |-> "href", name |-> "name", type |-> "type", valueType |-> "value_type",
     format |-> "format", fieldType |-> "field_type", hidden |-> "hidden",
     values |-> "values"]

TagKeys == [href |-> "href", name |-> "name", color |-> "color"]

SUBSCRIBER_TYPES == <<"subscribed", "undelivered", "removed", "unconfirmed">>

\* The keys whose value goes through dateutil.parser.parse.
DateKeys == {"createdOn", "changedOn"}

KeyOf(keys, attr) == CHOOSE key \in DOMAIN keys : keys[key] = attr

\* raw_data as every _create builds it: {'args': args if args else None,
\* 'kwargs': kwargs if kwargs else None}. No manager passes positional
\* arguments, so args is None; kwargs holds the id key when this is reached,
\* so it is never empty.
RawData_recognized(kwargs) == [args |-> None, kwargs |-> Without(kwargs, "extra")]

RawData(kwargs) == [args |-> None, kwargs |-> kwargs]

\* One step of the if-chain: "if key in kwargs: attr = none_to_false(kwargs[key])";
\* the attribute keeps its constructor default None otherwise.
PlainAttr(kwargs, key) ==
    IF key \in DOMAIN kwargs THEN none_to_false(kwargs[key]) ELSE None

\* The date keys: parsed only "if created_on:", left None otherwise.
DateAttr(kwargs, key) ==
    IF key \in DOMAIN kwargs
    THEN LET value == none_to_false(kwargs[key])
         IN IF value.k \in {"None", "False"} THEN None ELSE dateutil_parse(value)
    ELSE None

\* The attributes of an entity without nested entities.
Attrs(keys, kwargs) ==
    [attr \in Range(keys) |->
        LET key == KeyOf(keys, attr)
        IN IF key \in DateKeys THEN DateAttr(kwargs, key) ELSE PlainAttr(kwargs, key)]

FirstExc(attrs) ==
    IF \E a \in DOMAIN attrs : IsExc(attrs[a])
    THEN attrs[CHOOSE a \in DOMAIN attrs : IsExc(attrs[a])]
    ELSE None

Entity_default_id(cls, idKey, keys, kwargs) ==
    [cls |-> cls, id |-> IF idKey \in DOMAIN kwargs THEN kwargs[idKey] ELSE None,
     raw_data |-> RawData(kwargs), a |-> Attrs(keys, kwargs)]

Entity(cls, idKey, keys, kwargs) ==
    IF idKey \notin DOMAIN kwargs THEN Exc("KeyError")
    ELSE LET attrs == Attrs(keys, kwargs)
         IN IF IsExc(FirstExc(attrs)) THEN FirstExc(attrs)
            ELSE [cls |-> cls, id |-> kwargs[idKey], raw_data |-> RawData(kwargs),
                  a |-> attrs]

AccountManager__create(kwargs) == Entity("Account", "accountId", AccountKeys, kwargs)

CampaignManager__create(kwargs) == Entity("Campaign", "campaignId", CampaignKeys, kwargs)

CustomFieldManager__create(kwargs) ==
    Entity("CustomField", "customFieldId", CustomFieldKeys, kwargs)

TagManager__create(kwargs) == Entity("Tag", "tagId", TagKeys, kwargs)

\* The mapping a nested campaign value unpacks to in "self._create(**obj)".
CampaignKwargs(value) ==
    IF value.k = "campaign" THEN [x \in {"campaignId"} |-> Str(value.v)] ELSE EmptyMap

\* CampaignManager.create on the nested value of a contact: a JSON object is
\* unpacked into _create; anything else (False, a string) is not a mapping and
\* "**obj" raises TypeError.
CampaignManager_create_nested(value) ==
    IF value.k \in {"campaign", "campaign_noid"}
    THEN CampaignManager__create(CampaignKwargs(value))
    ELSE Exc("TypeError")

\* subscribers_type of a contact, from the request body it was asked with.
SubscribersType(request_body) ==
    IF request_body.present /\ request_body.subscribersType # <<>>
    THEN request_body.subscribersType[1]
    ELSE "subscribed"

ContactAttrs(kwargs) ==
    [attr \in Range(ContactKeys) |->
        LET key == KeyOf(ContactKeys, attr)
        IN IF key \in DateKeys THEN DateAttr(kwargs, key)
           ELSE IF key = "campaign"
                THEN IF key \in DOMAIN kwargs
                     THEN CampaignManager_create_nested(none_to_false(kwargs[key]))
                     ELSE None
                ELSE PlainAttr(kwargs, key)]

\* The first exception of the if-chain, in source order.
ContactFirstExc(attrs) ==
    IF IsExc(attrs["created_on"]) THEN attrs["created_on"]
    ELSE IF IsExc(attrs["changed_on"]) THEN attrs["changed_on"]
    ELSE IF IsExc(attrs["campaign"]) THEN attrs["campaign"]
    ELSE None

ContactManager__create(request_body, kwargs) ==
    IF "contactId" \notin DOMAIN kwargs THEN Exc("KeyError")
    ELSE IF SubscribersType(request_body) \notin Range(SUBSCRIBER_TYPES)
    THEN Exc("AssertionError")
    ELSE LET attrs == ContactAttrs(kwargs)
         IN IF IsExc(ContactFirstExc(attrs)) THEN ContactFirstExc(attrs)
            ELSE [cls |-> "Contact", id |-> kwargs["contactId"],
                  raw_data |-> RawData(kwargs),
                  subscribers_type |-> SubscribersType(request_body),
                  a |-> attrs]

(***************************************************************************)
(* Manager.create: a list is mapped item by item, anything else is one     *)
(* item. The result is tagged: "list" or "obj" with the entities in value, *)
(* or "raise" with the exception that escaped.                             *)
(***************************************************************************)
NoError == [code |-> 0, message |-> "", uuid |-> ""]
NoMsg == [message |-> "", repr |-> NoError]

Raised(exc, msg, response) ==
    [t |-> "raise", exc |-> exc, msg |-> msg, response |-> response, value |-> <<>>]

Returned(t, value) ==
    [t |-> t, exc |-> "", msg |-> NoMsg, response |-> NoError, value |-> value]

\* data is [t |-> "list" | "obj", items |-> <<payload, ...>>]; an object has
\* exactly one item.
FirstFailure(entities) ==
    entities[CHOOSE i \in 1..Len(entities) :
                 IsExc(entities[i]) /\ \A j \in 1..(i - 1) : ~IsExc(entities[j])]

Collect(t, entities) ==
    IF \E i \in 1..Len(entities) : IsExc(entities[i])
    THEN Raised(FirstFailure(entities).exc, NoMsg, NoError)
    ELSE Returned(t, entities)

AccountManager_create(obj) ==
    Collect(obj.t, [i \in 1..Len(obj.items) |-> AccountManager__create(obj.items[i])])

CampaignManager_create(obj) ==
    Collect(obj.t, [i \in 1..Len(obj.items) |-> CampaignManager__create(obj.items[i])])

CustomFieldManager_create(obj) ==
    Collect(obj.t, [i \in 1..Len(obj.items) |-> CustomFieldManager__create(obj.items[i])])

TagManager_create(obj) ==
    Collect(obj.t, [i \in 1..Len(obj.items) |-> TagManager__create(obj.items[i])])

NoBody == [present |-> FALSE, subscribersType |-> <<>>, campaignIdsList |-> <<>>,
           conditions |-> <<>>]

\* ContactManager.create passes request_body on to _create only for a list;
\* a single object is mapped with request_body left at its default None.
ContactManager_create(obj, request_body) ==
    Collect(obj.t,
            [i \in 1..Len(obj.items) |->
                ContactManager__create(IF obj.t = "list" THEN request_body ELSE NoBody,
                                       obj.items[i])])

ObjTypes == {"ACCOUNT", "CAMPAIGN", "CONTACT", "CUSTOM_FIELD", "TAG"}

_create_obj(obj_type, data, request_body) ==
    CASE obj_type = "ACCOUNT" -> AccountManager_create(data)
      [] obj_type = "CAMPAIGN" -> CampaignManager_create(data)
      [] obj_type = "CONTACT" -> ContactManager_create(data, request_body)
      [] obj_type = "CUSTOM_FIELD" -> CustomFieldManager_create(data)
      [] obj_type = "TAG" -> TagManager_create(data)
      [] OTHER -> Returned("raw", data.items)

(***************************************************************************)
(* The request dispatcher, GetResponse._request, applied to the response   *)
(* the transport returned. A response is                                   *)
(*   [status, t |-> "list" | "obj" | "error", items, error]                *)
(* where items is the JSON body of a success (a list, or one object) and   *)
(* error the JSON body {code, message, ...} of a failure.                  *)
(***************************************************************************)
SuccessStatus == {200, 201, 202, 203, 204, 205, 206, 207, 208, 226}

\* error_msg = error['message'] + "\n" + str(error)
error_msg(error) == [message |-> error.message, repr |-> error]

\* The chain of "if error['code'] == ...: raise ..." of the GET and POST branches.
ErrorClass_swapped(code) ==
    CASE code = 1000 -> "ValidationError"
      [] code = 1001 -> "RelatedRecordNotFoundError"
      [] code = 1013 -> "ForbiddenError"
      [] code = 1002 -> "NotFoundError"
      [] code = 1008 -> "UniquePropertyError"
      [] OTHER -> "Exception"

ErrorClass(code) ==
    CASE code = 1000 -> "ValidationError"
      [] code = 1001 -> "RelatedRecordNotFoundError"
      [] code = 1013 -> "NotFoundError"
      [] code = 1002 -> "ForbiddenError"
      [] code = 1008 -> "UniquePropertyError"
      [] OTHER -> "Exception"

\* The typed errors are built with response=error; the generic Exception is
\* built from error_msg alone.
RaiseFor_bare(error) ==
    Raised(ErrorClass(error.code), [message |-> error.message, repr |-> NoError],
           IF ErrorClass(error.code) = "Exception" THEN NoError ELSE error)

RaiseFor(error) ==
    Raised(ErrorClass(error.code), error_msg(error),
           IF ErrorClass(error.code) = "Exception" THEN NoError ELSE error)

\* The GET branch and the POST branch run the same statements.
RequestGetPost_parse_first(obj_type, body, response) ==
    IF response.status \notin SuccessStatus THEN RaiseFor(response.error)
    ELSE IF _create_obj(obj_type, [t |-> response.t, items |-> response.items], body).t = "raise"
    THEN _create_obj(obj_type, [t |-> response.t, items |-> response.items], body)
    ELSE IF response.status = 202 THEN Returned("True", <<>>)
    ELSE _create_obj(obj_type, [t |-> response.t, items |-> response.items], body)

RequestGetPost(obj_type, body, response) ==
    IF response.status \notin SuccessStatus THEN RaiseFor(response.error)
    ELSE IF response.status = 202 THEN Returned("True", <<>>)
    ELSE _create_obj(obj_type, [t |-> response.t, items |-> response.items], body)

RequestDelete_success_set(response) ==
    IF response.status \in SuccessStatus THEN Returned("True", <<>>) ELSE Returned("None", <<>>)

RequestDelete(response) ==
    IF response.status = 204 THEN Returned("True", <<>>) ELSE Returned("None", <<>>)

_request(obj_type, http_method, body, response) ==
    CASE http_method = "GET" -> RequestGetPost(obj_type, body, response)
      [] http_method = "POST" -> RequestGetPost(obj_type, body, response)
      [] http_method = "DELETE" -> RequestDelete(response)

(***************************************************************************)
(* Paging values: per_page, page and the values of the params mapping.     *)
(***************************************************************************)
PNone == [k |-> "None", n |-> 0]
PFalse == [k |-> "False", n |-> 0]
PInt(n) == [k |-> "int", n |-> n]
\* The string of the decimal digits of n, as in params={'page': '3'}.
NumStr(n) == [k |-> "str", n |-> n]
\* The empty dict that get_all_contacts passes as get_campaigns' per_page.
EmptyDict == [k |-> "dict", n |-> 0]
NoParams == [x \in {} |-> PNone]

\* Python truth value: None, False, 0 and {} are false; a non-empty string
\* and a non-zero integer are true.
Truthy(x) ==
    CASE x.k = "int" -> x.n # 0
      [] x.k = "str" -> TRUE
      [] OTHER -> FALSE

\* int(x) of an integer or of a string of digits.
int(x) == PInt(x.n)

(***************************************************************************)
(* The prologue every paginated call runs before its loop (get_campaigns   *)
(* 82-105, get_contacts 221-245, get_custom_fields 488-512, get_tags       *)
(* 614-638, search_contacts 788-811: the same statements five times).      *)
(***************************************************************************)
\* assert 'perPage' not in local_params, reached only "if per_page:"
PerPageDuplicate(per_page, local_params) ==
    Truthy(per_page) /\ "perPage" \in DOMAIN local_params

\* assert 0 < per_page <= 1000, reached only "if per_page:"
PerPageOutOfRange(per_page) ==
    Truthy(per_page) /\ ~(0 < per_page.n /\ per_page.n <= 1000)

\* per_page after "if per_page: ... elif 'perPage' in local_params: ..." and
\* the int() that follows
ResolvedPerPage_raw(per_page, local_params) ==
    IF Truthy(per_page) THEN per_page
    ELSE IF "perPage" \in DOMAIN local_params THEN local_params["perPage"]
    ELSE per_page

ResolvedPerPage(per_page, local_params) ==
    LET chosen == IF Truthy(per_page) THEN per_page
                  ELSE IF "perPage" \in DOMAIN local_params
                       THEN local_params["perPage"]
                       ELSE per_page
    IN IF Truthy(chosen) THEN int(chosen) ELSE chosen

\* local_params after the per_page block
ResolvedParams(per_page, local_params) ==
    IF Truthy(ResolvedPerPage(per_page, local_params))
    THEN With(local_params, "perPage", ResolvedPerPage(per_page, local_params))
    ELSE local_params

\* assert 'page' not in local_params, reached only "if page:"
PageDuplicate(page, local_params) ==
    Truthy(page) /\ "page" \in DOMAIN local_params

\* page after "if page: ... elif 'page' in local_params: ..." and int()
ResolvedPage(page, local_params) ==
    LET chosen == IF Truthy(page) THEN page
                  ELSE IF "page" \in DOMAIN local_params
                       THEN local_params["page"]
                       ELSE page
    IN IF Truthy(chosen) THEN int(chosen) ELSE chosen

\* The assertion that fails first, "" if none does.
FailedAssertion(params, per_page, page) ==
    IF PerPageDuplicate(per_page, params) THEN "perPage duplicate"
    ELSE IF PerPageOutOfRange(per_page) THEN "perPage range"
    ELSE IF PageDuplicate(page, ResolvedParams(per_page, params)) THEN "page duplicate"
    ELSE ""

AssertionError(message) ==
    Raised("AssertionError", [message |-> message, repr |-> NoError], NoError)

(***************************************************************************)
(* The running call. A world is the record of the client's variables; the  *)
(* operators below compute the world after a piece of straight-line code,  *)
(* and the actions at the end assign it to the variables.                  *)
(***************************************************************************)
Paths ==
    [get_campaigns |-> "/campaigns", get_contacts |-> "/contacts",
     get_custom_fields |-> "/custom-fields", get_tags |-> "/tags",
     search_contacts |-> "/search-contacts/contacts"]

ObjTypeOf ==
    [get_campaigns |-> "CAMPAIGN", get_contacts |-> "CONTACT",
     get_custom_fields |-> "CUSTOM_FIELD", get_tags |-> "TAG",
     search_contacts |-> "CONTACT"]

MethodOf ==
    [get_campaigns |-> "GET", get_contacts |-> "GET", get_custom_fields |-> "GET",
     get_tags |-> "GET", search_contacts |-> "POST"]

IdKeyOf ==
    [ACCOUNT |-> "accountId", CAMPAIGN |-> "campaignId", CONTACT |-> "contactId",
     CUSTOM_FIELD |-> "customFieldId", TAG |-> "tagId"]

\* params_now is what the mapping the caller passed as params holds now, and
\* paged_owner tells whose mapping paged_payload is.
NoFrame ==
    [op |-> "", caller |-> "", body |-> NoBody, page |-> PNone, per_page |-> PNone,
     current_page |-> PNone, paged_payload |-> NoParams, all |-> <<>>,
     params_now |-> NoParams, paged_owner |-> "call"]

\* A mapping in memory: its items, and whether it is the caller's own
\* mapping or one the call made. deepcopy makes a new mapping with the same
\* items.
CallersMapping(params) == [owner |-> "caller", items |-> params]

deepcopy_alias(mapping) == mapping

deepcopy(mapping) == [owner |-> "call", items |-> mapping.items]

\* local_params = deepcopy(params) if params else {}
LocalParams(params) ==
    IF params # NoParams THEN deepcopy(CallersMapping(params))
    ELSE [owner |-> "call", items |-> NoParams]

\* The caller's mapping after the statements that write to local_params.
ParamsAfterWrites(params, written) ==
    IF LocalParams(params).owner = "caller" THEN written ELSE params

NoAgg ==
    [active |-> FALSE, campaign_ids |-> <<>>, conditions |-> <<>>,
     subscriber_types |-> <<>>, i |-> 0, all_contacts |-> <<>>]

NoRet == Returned("", <<>>)

Raise_partial(w, result) ==
    [w EXCEPT !.pc = "done",
              !.ret = Returned("list", w.agg.all_contacts \o w.frame.all)]

Raise(w, result) == [w EXCEPT !.pc = "raised", !.ret = result]

\* The prologue of a paginated call: the assertions, then the locals the loop
\* starts with (current_page = page if page else 1, paged_payload a copy of
\* local_params).
StartPaged(w, op, caller, body, per_page, page, params) ==
    IF FailedAssertion(params, per_page, page) # ""
    THEN \* the asserts on perPage come before the write to local_params, the
         \* assert on page after it
         Raise([w EXCEPT !.frame.params_now =
                    IF FailedAssertion(params, per_page, page) = "page duplicate"
                    THEN ParamsAfterWrites(params, ResolvedParams(per_page, params))
                    ELSE params],
               AssertionError(FailedAssertion(params, per_page, page)))
    ELSE LET local_params == ResolvedParams(per_page, params)
             page2 == ResolvedPage(page, local_params)
         IN [w EXCEPT !.pc = "fetch",
                      !.frame = [op |-> op, caller |-> caller, body |-> body,
                                 page |-> page2,
                                 per_page |-> ResolvedPerPage(per_page, params),
                                 current_page |-> IF Truthy(page2) THEN page2 ELSE PInt(1),
                                 paged_payload |-> local_params,
                                 all |-> <<>>,
                                 params_now |-> ParamsAfterWrites(params, local_params),
                                 paged_owner |->
                                     deepcopy([owner |-> LocalParams(params).owner,
                                               items |-> local_params]).owner]]

\* The body get_all_contacts builds for one subscriber type.
SearchBody(subscriber_type, campaign_ids, conditions) ==
    [present |-> TRUE, subscribersType |-> <<subscriber_type>>,
     campaignIdsList |-> campaign_ids, conditions |-> conditions]

\* get_all_contacts, the for loop over subscriber_types from its i-th
\* element on: the next search_contacts call, or the return.
AggNextSearch(c, w) ==
    IF w.agg.i > Len(w.agg.subscriber_types)
    THEN [w EXCEPT !.pc = "done", !.ret = Returned("list", w.agg.all_contacts)]
    ELSE StartPaged(w, "search_contacts", "get_all_contacts",
                    SearchBody(w.agg.subscriber_types[w.agg.i], w.agg.campaign_ids,
                               w.agg.conditions),
                    c.per_page, c.page, c.params)

\* all_contacts.extend(subscriber_type_contacts), then the next iteration.
AggAfterSearch_prepend(c, w, contacts) ==
    AggNextSearch(c, [w EXCEPT !.agg.all_contacts = contacts \o w.agg.all_contacts,
                            !.agg.i = w.agg.i + 1])

AggAfterSearch(c, w, contacts) ==
    AggNextSearch(c, [w EXCEPT !.agg.all_contacts = w.agg.all_contacts \o contacts,
                            !.agg.i = w.agg.i + 1])

AllowedOperators ==
    {"is", "is_not", "contains", "not_contains", "starts", "ends", "not_starts",
     "not_ends"}

CustomFieldOperators == AllowedOperators \cup {"assigned", "not_assigned"}

\* A name or email filter is [form |-> "none" | "str" | "tuple", operator, value].
FilterOperator_contains(filter) ==
    IF filter.form = "str" THEN "contains" ELSE filter.operator

FilterOperator(filter) == IF filter.form = "str" THEN "is" ELSE filter.operator

StringCondition(conditionType, filter) ==
    [conditionType |-> conditionType, operatorType |-> "string_operator",
     operator |-> FilterOperator(filter), value |-> filter.value]

CustomCondition(field_search) ==
    IF field_search.operator \in {"assigned", "not_assigned"}
    THEN [conditionType |-> "custom", scope |-> field_search.scope,
          operatorType |-> "string_operator_list", operator |-> field_search.operator]
    ELSE [conditionType |-> "custom", scope |-> field_search.scope,
          operatorType |-> "string_operator_list", operator |-> field_search.operator,
          value |-> field_search.value]

Conditions(name, email, custom_fields) ==
    (IF name.form = "none" THEN <<>> ELSE <<StringCondition("name", name)>>)
    \o (IF email.form = "none" THEN <<>> ELSE <<StringCondition("email", email)>>)
    \o [i \in 1..Len(custom_fields) |-> CustomCondition(custom_fields[i])]

\* The operator assertions of the three "if name / if email / if custom_fields"
\* blocks.
OperatorsValid(name, email, custom_fields) ==
    /\ name.form # "none" => FilterOperator(name) \in AllowedOperators
    /\ email.form # "none" => FilterOperator(email) \in AllowedOperators
    /\ \A i \in 1..Len(custom_fields) :
          custom_fields[i].operator \in CustomFieldOperators

\* get_all_contacts from "ADD SEARCH CONDITIONS" on, campaign_ids known.
AggBuildFor(c, w, campaign_ids) ==
    IF ~OperatorsValid(c.name, c.email, c.custom_fields)
    THEN Raise(w, AssertionError("operator"))
    ELSE AggNextSearch(c,
            [w EXCEPT !.agg.campaign_ids = campaign_ids,
                      !.agg.conditions = Conditions(c.name, c.email, c.custom_fields),
                      !.agg.i = 1])

\* campaign_ids = [c.id for c in all_campaigns]
AggAfterCampaigns_reversed(c, w, campaigns) ==
    AggBuildFor(c, w, [i \in 1..Len(campaigns) |-> campaigns[Len(campaigns) + 1 - i].id])

AggAfterCampaigns(c, w, campaigns) ==
    AggBuildFor(c, w, [i \in 1..Len(campaigns) |-> campaigns[i].id])

\* "return all_..." of a paginated call, and what its caller does with it.
ReturnPaged(w, all) ==
    IF w.frame.caller = "get_all_contacts"
    THEN IF w.frame.op = "get_campaigns"
         THEN AggAfterCampaigns(call, w, all)
         ELSE AggAfterSearch(call, w, all)
    ELSE [w EXCEPT !.pc = "done", !.ret = Returned("list", all)]

\* The request one iteration of the while loop issues.
PageRequest(f) ==
    [method |-> MethodOf[f.op], path |-> Paths[f.op],
     params |-> With(f.paged_payload, "page", f.current_page), body |-> f.body]

\* all_x.extend(paged_x)
Extended_prepend(all, paged) == paged \o all

Extended(all, paged) == all \o paged

\* "if page: current_page = False / else: current_page += 1"
NextCurrentPage_increment(page, current_page) == PInt(current_page.n + 1)

NextCurrentPage(page, current_page) ==
    IF Truthy(page) THEN PFalse ELSE PInt(current_page.n + 1)

\* The loop test "while paged_x and current_page" on a list paged_x.
LoopTest_short_page(paged, current_page) == Len(paged) >= 2 /\ Truthy(current_page)

LoopTest(paged, current_page) == paged # <<>> /\ Truthy(current_page)

\* One iteration of "while paged_x and current_page", given the response
\* to its request: _request, extend, the page counter, and the loop test.
LoopIteration(w, response) ==
    LET f == w.frame
        paged == _request(ObjTypeOf[f.op], MethodOf[f.op], f.body, response)
        w1 == [w EXCEPT !.reqs = Append(w.reqs, PageRequest(f)),
                        !.resps = Append(w.resps, response),
                        !.frame.paged_payload = PageRequest(f).params,
                        !.frame.params_now =
                            IF f.paged_owner = "caller" THEN PageRequest(f).params
                            ELSE f.params_now]
    IN IF paged.t = "raise" THEN Raise(w1, paged)
       ELSE IF paged.t # "list"
       THEN \* all_x.extend(True): a bool is not iterable
            Raise(w1, Raised("TypeError", NoMsg, NoError))
       ELSE LET all == Extended(f.all, paged.value)
                current_page == NextCurrentPage(f.page, f.current_page)
                w2 == [w1 EXCEPT !.frame.all = all,
                                 !.frame.current_page = current_page]
            IN IF LoopTest(paged.value, current_page)
               THEN w2
               ELSE ReturnPaged(w2, all)

(***************************************************************************)
(* The upstream service. It answers a page request with a page of items,   *)
(* with 202, or with an error; it holds a finite amount of data, so it     *)
(* serves at most MaxNonEmpty non-empty pages during one call.             *)
(***************************************************************************)
MaxNonEmpty == 2

ItemIds == {"a", "b"}

\* The item orders a non-empty page may hold.
PageContents == {<<"a">>, <<"a", "b">>, <<"b", "a">>}

Payload(obj_type, id) == [x \in {IdKeyOf[obj_type]} |-> Str(id)]

Page(obj_type, ids) ==
    [status |-> 200, t |-> "list",
     items |-> [i \in 1..Len(ids) |-> Payload(obj_type, ids[i])], error |-> NoError]

Accepted == [status |-> 202, t |-> "list", items |-> <<>>, error |-> NoError]

Failure(status, code, message) ==
    [status |-> status, t |-> "error", items |-> <<>>,
     error |-> [code |-> code, message |-> message, uuid |-> "u-1"]]

IsPage(response) == response.status \in SuccessStatus \ {202}

NonEmptyServed(responses) ==
    Cardinality({i \in 1..Len(responses) :
                    IsPage(responses[i]) /\ responses[i].items # <<>>})

Responses(obj_type, responses) ==
    {Page(obj_type, <<>>), Accepted, Failure(404, 1013, "gone"),
     Failure(500, 5, "oops")}
    \cup (IF NonEmptyServed(responses) < MaxNonEmpty
          THEN {Page(obj_type, ids) : ids \in PageContents}
          ELSE {})

(***************************************************************************)
(* The arguments a caller may pass.                                        *)
(***************************************************************************)
PerPageArgs == {PNone, PInt(0), PInt(-1), PInt(1), PInt(1000), PInt(1001)}

PageArgs == {PNone, PInt(0), PInt(2)}

Text == [k |-> "str", n |-> 0]

ParamValues ==
    [perPage |-> {PInt(60), NumStr(60), PInt(5000), PInt(0)},
     page |-> {PInt(3), NumStr(3)},
     fields |-> {Text}]

\* The params mappings: any subset of the keys, each with one of its
\* values. params=None and params={} run the same code ("if params"
\* is false for both) and are the empty mapping here.
ParamsArgs ==
    UNION {[D -> UNION Range(ParamValues)] : D \in SUBSET DOMAIN ParamValues}

ValidParams(params) == \A key \in DOMAIN params : params[key] \in ParamValues[key]

SearchBodies ==
    {[present |-> TRUE, subscribersType |-> st, campaignIdsList |-> <<Str("c9")>>,
      conditions |-> <<>>] : st \in {<<>>, <<"removed">>, <<"paused">>}}

NoFilter == [form |-> "none", operator |-> "", value |-> ""]

NameArgs ==
    {NoFilter, [form |-> "str", operator |-> "", value |-> "Max"],
     [form |-> "tuple", operator |-> "contains", value |-> "Max"],
     [form |-> "tuple", operator |-> "like", value |-> "Max"]}

EmailArgs ==
    {NoFilter, [form |-> "tuple", operator |-> "ends", value |-> "x.org"],
     [form |-> "tuple", operator |-> "regex", value |-> "x.org"]}

CustomFieldsArgs ==
    {<<>>, <<[scope |-> "f1", operator |-> "assigned", value |-> ""]>>,
     <<[scope |-> "f1", operator |-> "is", value |-> "v"]>>,
     <<[scope |-> "f1", operator |-> "between", value |-> "v"]>>}

CampaignIdsArgs == {<<>>, <<Str("c9")>>}

SubscriberTypesArgs == {<<>>, <<"removed", "subscribed">>}

AggPerPageArgs == {PNone, PInt(50), PInt(1001)}

AggPageArgs == {PNone, PInt(2)}

AggParamsArgs ==
    {NoParams, [x \in {"perPage"} |-> PInt(60)], [x \in {"page"} |-> PInt(3)]}

NoCall ==
    [op |-> "", params |-> NoParams, per_page |-> PNone, page |-> PNone,
     per_page_given |-> FALSE, body |-> NoBody, campaign_ids |-> <<>>,
     name |-> NoFilter, email |-> NoFilter, custom_fields |-> <<>>,
     subscriber_types |-> <<>>]

PagedCall(op, params, per_page, page, body, given) ==
    [NoCall EXCEPT !.op = op, !.params = params, !.per_page = per_page,
                   !.page = page, !.body = body, !.per_page_given = given]

(***************************************************************************)
(* Actions.                                                                *)
(***************************************************************************)
World == [pc |-> pc, frame |-> frame, agg |-> agg, reqs |-> reqs, resps |-> resps,
          ret |-> ret]

Becomes(w) ==
    /\ pc' = w.pc
    /\ frame' = w.frame
    /\ agg' = w.agg
    /\ reqs' = w.reqs
    /\ resps' = w.resps
    /\ ret' = w.ret

\* A paginated call with per_page defaulting to None, up to its first request.
CallPaged(op) ==
    /\ pc = "idle"
    /\ \E params \in ParamsArgs, per_page \in PerPageArgs, page \in PageArgs :
          /\ ValidParams(params)
          /\ call' = PagedCall(op, params, per_page, page, NoBody, per_page # PNone)
          /\ Becomes(StartPaged(World, op, "caller", NoBody, per_page, page, params))
    /\ UNCHANGED <<fin, fout>>

get_campaigns == CallPaged("get_campaigns")

get_contacts == CallPaged("get_contacts")

get_custom_fields == CallPaged("get_custom_fields")

get_tags == CallPaged("get_tags")

\* search_contacts(body, per_page=100, page=None, params=None): per_page is
\* 100 when the caller leaves it out.
search_contacts ==
    /\ pc = "idle"
    /\ \E body \in SearchBodies, params \in ParamsArgs, page \in PageArgs,
          given \in BOOLEAN, arg \in PerPageArgs :
          LET per_page == IF given THEN arg ELSE PInt(100)
          IN /\ ValidParams(params)
             /\ ~given => arg = PNone
             /\ call' = PagedCall("search_contacts", params, per_page, page, body, given)
             /\ Becomes(StartPaged(World, "search_contacts", "caller", body, per_page,
                                   page, params))
    /\ UNCHANGED <<fin, fout>>

\* get_all_contacts up to its first request (or its failure or return
\* before any): the campaign listing get_campaigns({}) "if not campaign_ids",
\* the conditions otherwise.
get_all_contacts ==
    /\ pc = "idle"
    /\ \E campaign_ids \in CampaignIdsArgs, name \in NameArgs, email \in EmailArgs,
          custom_fields \in CustomFieldsArgs, subscriber_types \in SubscriberTypesArgs,
          per_page \in AggPerPageArgs, page \in AggPageArgs, params \in AggParamsArgs :
          LET c == [op |-> "get_all_contacts", params |-> params, per_page |-> per_page,
                    page |-> page, per_page_given |-> per_page # PNone, body |-> NoBody,
                    campaign_ids |-> campaign_ids, name |-> name, email |-> email,
                    custom_fields |-> custom_fields,
                    subscriber_types |-> subscriber_types]
              w == [World EXCEPT
                       !.agg = [NoAgg EXCEPT
                                   !.active = TRUE,
                                   !.subscriber_types =
                                       IF subscriber_types = <<>> THEN SUBSCRIBER_TYPES
                                       ELSE subscriber_types]]
          IN /\ call' = c
             /\ Becomes(IF campaign_ids = <<>>
                        THEN StartPaged(w, "get_campaigns", "get_all_contacts", NoBody,
                                        EmptyDict, PNone, NoParams)
                        ELSE AggBuildFor(c, w, campaign_ids))
    /\ UNCHANGED <<fin, fout>>

\* '/campaigns/{}/contacts'.format(campaign_id)
CampaignContactsPath == [c7 |-> "/campaigns/c7/contacts", c9 |-> "/campaigns/c9/contacts"]

\* The request of get_campaign_contacts: _request is called without
\* payload, so the request has no query parameters.
CampaignContactsRequest(campaign_id, params) ==
    [method |-> "GET", path |-> CampaignContactsPath[campaign_id], params |-> NoParams,
     body |-> NoBody]

\* get_campaign_contacts: its one request, the upstream's answer and the
\* result of _request, which the call returns or lets escape.
get_campaign_contacts ==
    /\ pc = "idle"
    /\ \E campaign_id \in DOMAIN CampaignContactsPath, params \in ParamsArgs,
          response \in Responses("CONTACT", <<>>) :
          LET result == _request("CONTACT", "GET", NoBody, response)
          IN /\ ValidParams(params)
             /\ call' = [NoCall EXCEPT !.op = "get_campaign_contacts", !.params = params,
                                       !.campaign_ids = <<Str(campaign_id)>>]
             /\ reqs' = <<CampaignContactsRequest(campaign_id, params)>>
             /\ resps' = <<response>>
             /\ ret' = result
             /\ pc' = IF result.t = "raise" THEN "raised" ELSE "done"
    /\ UNCHANGED <<frame, agg, fin, fout>>

\* One iteration of the while loop of the running paginated call: its request,
\* the upstream's answer, and the code up to the next request or the end of
\* the call.
Loop(op) ==
    /\ pc = "fetch"
    /\ frame.op = op
    /\ \E response \in Responses(ObjTypeOf[op], resps) :
          Becomes(LoopIteration(World, response))
    /\ UNCHANGED <<call, fin, fout>>

get_campaigns_loop == Loop("get_campaigns")

get_contacts_loop == Loop("get_contacts")

get_custom_fields_loop == Loop("get_custom_fields")

get_tags_loop == Loop("get_tags")

search_contacts_loop == Loop("search_contacts")

NoFun == [kind |-> "none"]

Init ==
    /\ pc = "idle"
    /\ call = NoCall
    /\ frame = NoFrame
    /\ agg = NoAgg
    /\ reqs = <<>>
    /\ resps = <<>>
    /\ ret = NoRet
    /\ fin = NoFun
    /\ fout = NoFun

Next ==
    \/ get_campaigns
    \/ get_contacts
    \/ get_custom_fields
    \/ get_tags
    \/ search_contacts
    \/ get_all_contacts
    \/ get_campaign_contacts
    \/ get_campaigns_loop
    \/ get_contacts_loop
    \/ get_custom_fields_loop
    \/ get_tags_loop
    \/ search_contacts_loop

Spec == Init /\ [][Next]_vars

\* The five paginated calls on their own, run to their end: a call that is
\* under way takes its next step (the interpreter runs the loop, and the
\* transport answers every request or gives up after its timeout).
NextPaged ==
    \/ get_campaigns
    \/ get_contacts
    \/ get_custom_fields
    \/ get_tags
    \/ search_contacts
    \/ get_campaigns_loop
    \/ get_contacts_loop
    \/ get_custom_fields_loop
    \/ get_tags_loop
    \/ search_contacts_loop

SpecPaged ==
    /\ Init
    /\ [][NextPaged]_vars
    /\ WF_vars(get_campaigns_loop)
    /\ WF_vars(get_contacts_loop)
    /\ WF_vars(get_custom_fields_loop)
    /\ WF_vars(get_tags_loop)
    /\ WF_vars(search_contacts_loop)

(***************************************************************************)
(* The entity mappers on their own: SpecMap draws a JSON body (one object, *)
(* or a list of one or two) and the request body it answers, and applies   *)
(* the manager's create to it.                                             *)
(***************************************************************************)
KeysOf ==
    [ACCOUNT |-> AccountKeys, CAMPAIGN |-> CampaignKeys, CONTACT |-> ContactKeys,
     CUSTOM_FIELD |-> CustomFieldKeys, TAG |-> TagKeys]

\* The values an optional key is drawn from.
ValuesOf(obj_type, key) ==
    IF key \in DateKeys /\ obj_type \in {"CAMPAIGN", "CONTACT"}
    THEN {None, Str("2019-05-01T10:00:00+0000"), Str("yesterday")}
    ELSE IF key = "campaign" /\ obj_type = "CONTACT"
    THEN {None, CampaignObj("c9"), CampaignObjNoId}
    ELSE {None, Str("x")}

\* A key no mapper recognizes.
ExtraKey == "extra"

\* The payloads of an entity: with or without its id key, with at most one
\* optional key, with or without an unrecognized key.
IdPart(obj_type) == {EmptyMap, [x \in {IdKeyOf[obj_type]} |-> Str("a")]}

OptionalPart(obj_type) ==
    {EmptyMap} \cup
    UNION {{[x \in {key} |-> value] : value \in ValuesOf(obj_type, key)} :
              key \in DOMAIN KeysOf[obj_type]}

ExtraPart == {EmptyMap, [x \in {ExtraKey} |-> Str("y")]}

Payloads(obj_type) ==
    {ip @@ op @@ ep : ip \in IdPart(obj_type), op \in OptionalPart(obj_type),
                      ep \in ExtraPart}

GoodPayload(obj_type) == [x \in {IdKeyOf[obj_type]} |-> Str("b")]

Bodies(obj_type) ==
    UNION {{[t |-> "obj", items |-> <<p>>], [t |-> "list", items |-> <<p>>],
            [t |-> "list", items |-> <<p, GoodPayload(obj_type)>>],
            [t |-> "list", items |-> <<GoodPayload(obj_type), p>>]} :
              p \in Payloads(obj_type)}

RequestBodies(obj_type) ==
    IF obj_type = "CONTACT" THEN {NoBody} \cup SearchBodies ELSE {NoBody}

MapInputs ==
    UNION {{[kind |-> "map", obj_type |-> obj_type, data |-> data,
             request_body |-> request_body] :
                data \in Bodies(obj_type), request_body \in RequestBodies(obj_type)} :
              obj_type \in ObjTypes}

IdleClient ==
    /\ pc = "idle"
    /\ call = NoCall
    /\ frame = NoFrame
    /\ agg = NoAgg
    /\ reqs = <<>>
    /\ resps = <<>>
    /\ ret = NoRet

InitMap ==
    /\ IdleClient
    /\ fin \in MapInputs
    /\ fout = NoFun

Mapped(result) == [kind |-> "mapped", result |-> result]

MapWith(obj_type, result) ==
    /\ fin.kind = "map"
    /\ fin.obj_type = obj_type
    /\ fout.kind = "none"
    /\ fout' = Mapped(result)
    /\ UNCHANGED <<pc, call, frame, agg, reqs, resps, ret, fin>>

account_manager_create == MapWith("ACCOUNT", AccountManager_create(fin.data))

campaign_manager_create == MapWith("CAMPAIGN", CampaignManager_create(fin.data))

contact_manager_create ==
    MapWith("CONTACT", ContactManager_create(fin.data, fin.request_body))

custom_field_manager_create ==
    MapWith("CUSTOM_FIELD", CustomFieldManager_create(fin.data))

tag_manager_create == MapWith("TAG", TagManager_create(fin.data))

NextMap ==
    \/ account_manager_create
    \/ campaign_manager_create
    \/ contact_manager_create
    \/ custom_field_manager_create
    \/ tag_manager_create

SpecMap == InitMap /\ [][NextMap]_vars

(***************************************************************************)
(* The dispatcher on its own: SpecDispatch draws a method, an object type  *)
(* and the response of the transport, and applies _request to them.        *)
(***************************************************************************)
FailureStatus == {301, 400, 404, 409, 422, 500}

ErrorCodes == {1000, 1001, 1002, 1008, 1013, 1, 1014}

ErrorMessages == {"dup", "gone"}

HttpMethods == {"GET", "POST", "DELETE"}

\* obj_type None is "NONE": the ad-hoc endpoints that return raw JSON.
DispatchObjTypes == ObjTypes \cup {"NONE"}

DispatchIdKey(obj_type) == IF obj_type = "NONE" THEN "id" ELSE IdKeyOf[obj_type]

SuccessResponses(obj_type) ==
    {[status |-> status, t |-> data.t, items |-> data.items, error |-> NoError] :
        status \in SuccessStatus,
        data \in {[t |-> "obj", items |-> <<[x \in {DispatchIdKey(obj_type)} |-> Str("a")]>>],
                  [t |-> "list", items |-> <<[x \in {DispatchIdKey(obj_type)} |-> Str("a")]>>],
                  [t |-> "obj", items |-> <<[x \in {"name"} |-> Str("x")]>>]}}

FailureResponses ==
    {Failure(status, code, message) :
        status \in FailureStatus, code \in ErrorCodes, message \in ErrorMessages}

DispatchInputs ==
    UNION {{[kind |-> "dispatch", http_method |-> http_method, obj_type |-> obj_type,
             body |-> NoBody, response |-> response] :
                http_method \in HttpMethods,
                response \in SuccessResponses(obj_type) \cup FailureResponses} :
              obj_type \in DispatchObjTypes}

InitDispatch ==
    /\ IdleClient
    /\ fin \in DispatchInputs
    /\ fout = NoFun

Dispatched(result) == [kind |-> "dispatched", result |-> result]

DispatchWith(http_method) ==
    /\ fin.kind = "dispatch"
    /\ fin.http_method = http_method
    /\ fout.kind = "none"
    /\ fout' = Dispatched(_request(fin.obj_type, http_method, fin.body, fin.response))
    /\ UNCHANGED <<pc, call, frame, agg, reqs, resps, ret, fin>>

request_GET == DispatchWith("GET")

request_POST == DispatchWith("POST")

request_DELETE == DispatchWith("DELETE")

NextDispatch ==
    \/ request_GET
    \/ request_POST
    \/ request_DELETE

SpecDispatch == InitDispatch /\ [][NextDispatch]_vars

(***************************************************************************)
(* Properties of the paginated list calls (specification Spec).            *)
(***************************************************************************)
PagedOps == DOMAIN Paths

\* The caller called one of the five paginated list calls directly.
TopPaged == call.op \in PagedOps

\* No page is requested: the page argument is None (or 0, which is no page
\* number) and the params mapping has no 'page'.
NoPageRequested ==
    ~Truthy(call.page) /\ ("page" \notin DOMAIN call.params \/ ~Truthy(call.params["page"]))

\* A page p is requested, by exactly one of the two ways.
PageRequestedByArgument == Truthy(call.page) /\ "page" \notin DOMAIN call.params

PageRequestedByParams ==
    ~Truthy(call.page) /\ "page" \in DOMAIN call.params /\ Truthy(call.params["page"])

RequestedPage == IF Truthy(call.page) THEN call.page.n ELSE call.params["page"].n

\* The contacts of the answer can be built: the first subscribersType of the
\* request body, if any, is one of the four subscriber types.
MappableBody == SubscribersType(call.body) \in Range(SUBSCRIBER_TYPES)

IsNonEmptyPage(response) == IsPage(response) /\ response.items # <<>>

IsEmptyPage(response) == IsPage(response) /\ response.items = <<>>

\* k >= 0 non-empty pages followed by one empty page.
ExhaustedAnswer(responses) ==
    /\ Len(responses) >= 1
    /\ \A i \in 1..(Len(responses) - 1) : IsNonEmptyPage(responses[i])
    /\ IsEmptyPage(responses[Len(responses)])

RECURSIVE Flatten(_)
Flatten(responses) ==
    IF responses = <<>> THEN <<>>
    ELSE responses[1].items \o Flatten(Tail(responses))

\* entities are the entities built from items, one to one and in order.
BuiltFrom(entities, items) ==
    /\ Len(entities) = Len(items)
    /\ \A j \in 1..Len(items) : entities[j].raw_data.kwargs = items[j]

\* C1. A paginated list call made with no page, answered by k non-empty
\* pages and then an empty one, fetches the pages 1, 2, ..., k+1 in that
\* order, once each, and returns the items of the k pages concatenated in
\* page order, the order inside each page kept; and it returns only after
\* such an answer.
C1_PaginationExhaustion ==
    (TopPaged /\ NoPageRequested /\ MappableBody) =>
        /\ \A i \in 1..Len(reqs) :
              /\ reqs[i].params["page"] = PInt(i)
              /\ reqs[i].path = Paths[call.op]
        /\ ExhaustedAnswer(resps) =>
              /\ pc = "done"
              /\ Len(reqs) = Len(resps)
              /\ ret.t = "list"
              /\ BuiltFrom(ret.value, Flatten(resps))
        /\ pc = "done" => ExhaustedAnswer(resps)

\* A call answered by two non-empty pages and an empty one has returned.
C1_Witness ==
    /\ TopPaged /\ NoPageRequested /\ MappableBody
    /\ pc = "done"
    /\ Len(reqs) = 3
    /\ Len(ret.value) >= 3
    /\ resps[2].items = <<Payload(ObjTypeOf[call.op], "b"), Payload(ObjTypeOf[call.op], "a")>>

\* C2. A paginated list call asked for page p, by the page argument or by
\* the 'page' key of params, issues at most one request, which carries
\* page = p; once answered by a page it has returned that page's items,
\* empty or not, and it returns only after exactly one request.
C2_ExplicitPage ==
    (TopPaged /\ (PageRequestedByArgument \/ PageRequestedByParams)) =>
        /\ Len(reqs) <= 1
        /\ \A i \in 1..Len(reqs) : reqs[i].params["page"] = PInt(RequestedPage)
        /\ (Len(resps) = 1 /\ IsPage(resps[1]) /\ MappableBody) =>
              /\ pc = "done"
              /\ ret.t = "list"
              /\ BuiltFrom(ret.value, resps[1].items)
        /\ pc = "done" => Len(reqs) = 1 /\ IsPage(resps[1])
        /\ pc = "fetch" => reqs = <<>>

\* A call asked for a page has returned a page of two items.
C2_Witness ==
    /\ TopPaged /\ (PageRequestedByArgument \/ PageRequestedByParams)
    /\ pc = "done"
    /\ Len(reqs) = 1
    /\ Len(ret.value) = 2

\* The caller passed per_page / page itself, with a value other than None.
SuppliedPerPage == call.per_page_given /\ call.per_page # PNone

SuppliedPage == call.page # PNone

\* The call failed on one of its assertions about its arguments.
PreconditionMessages ==
    {"perPage duplicate", "perPage range", "page duplicate", "operator"}

PreconditionFailure ==
    /\ pc = "raised"
    /\ ret.exc = "AssertionError"
    /\ ret.msg.message \in PreconditionMessages

\* C3. A paginated list call that is given per_page (or page) both as an
\* argument and as the key 'perPage' (or 'page') of params fails on an
\* assertion and issues no request.
C3_DuplicateIsFatal ==
    (TopPaged /\ \/ SuppliedPerPage /\ "perPage" \in DOMAIN call.params
                 \/ SuppliedPage /\ "page" \in DOMAIN call.params) =>
        /\ PreconditionFailure
        /\ reqs = <<>>

\* What the code does guarantee: the duplicate is fatal when the argument is
\* true in Python's sense (not None and not 0).
DuplicateOfTruthyArgumentIsFatal ==
    (TopPaged /\ \/ Truthy(call.per_page) /\ "perPage" \in DOMAIN call.params
                 \/ Truthy(call.page) /\ "page" \in DOMAIN call.params) =>
        /\ PreconditionFailure
        /\ reqs = <<>>

OutOfRange(value) == value.k \in {"int", "str"} /\ ~(1 <= value.n /\ value.n <= 1000)

\* C4. A paginated list call given a per_page outside 1..1000, as the
\* argument or as 'perPage' of params, fails on an assertion, and no request
\* carries a perPage outside 1..1000.
C4_PerPageRange ==
    TopPaged =>
        /\ \A i \in 1..Len(reqs) :
              "perPage" \in DOMAIN reqs[i].params =>
                  ~OutOfRange(reqs[i].params["perPage"])
        /\ (\/ SuppliedPerPage /\ OutOfRange(call.per_page)
            \/ "perPage" \in DOMAIN call.params /\ OutOfRange(call.params["perPage"])) =>
              /\ PreconditionFailure
              /\ reqs = <<>>

\* C5. A call that fails on an assertion about its arguments has issued no
\* request, get_all_contacts without campaign_ids included.
C5_PreconditionsBeforeNetwork == PreconditionFailure => reqs = <<>>

\* What the code does guarantee: no request precedes the failure in the five
\* paginated calls, and in get_all_contacts when campaign_ids is given.
PreconditionsBeforeSearch ==
    (PreconditionFailure /\ (TopPaged \/ call.campaign_ids # <<>>)) => reqs = <<>>

(***************************************************************************)
(* Properties of get_all_contacts (specification Spec).                    *)
(***************************************************************************)
IsSearch(request) == request.path = Paths["search_contacts"]

SearchReqs == SelectSeq(reqs, IsSearch)

\* The non-empty pages the searches of the call were answered with.
NonEmptySearchPages ==
    Cardinality({i \in 1..Len(resps) : IsSearch(reqs[i]) /\ IsNonEmptyPage(resps[i])})

\* get_all_contacts(name="...") with the default subscriber types has returned.
BareNameSearchDone ==
    /\ call.op = "get_all_contacts"
    /\ call.name.form = "str"
    /\ call.subscriber_types = <<>>
    /\ pc = "done"

NameIsCondition ==
    [conditionType |-> "name", operatorType |-> "string_operator", operator |-> "is",
     value |-> call.name.value]

\* The subscriber types of the search requests, in issue order, each once.
RECURSIVE Dedup(_)
Dedup(types) ==
    IF Len(types) <= 1 THEN types
    ELSE IF types[1] = types[2] THEN Dedup(Tail(types))
    ELSE <<types[1]>> \o Dedup(Tail(types))

SearchedTypes == Dedup([i \in 1..Len(SearchReqs) |-> SearchReqs[i].body.subscribersType[1]])

\* C9, as claimed. get_all_contacts with a bare string name and the default
\* subscriber types issues exactly 4 search requests, each with the
\* condition name is <the string> first in its conditions.
C9_ExactlyFourSearches ==
    BareNameSearchDone =>
        /\ Len(SearchReqs) = Len(SUBSCRIBER_TYPES)
        /\ \A i \in 1..Len(SearchReqs) :
              SearchReqs[i].body.conditions[1] = NameIsCondition

\* C9, amended. It issues one search request per subscriber type, and, when
\* no page is requested, one more for every non-empty page a search is
\* answered with; the requests go through the four subscriber types in
\* order, and each has the condition name is <the string> first in its
\* conditions.
C9_SearchesPerType ==
    BareNameSearchDone =>
        /\ Len(SearchReqs) =
              Len(SUBSCRIBER_TYPES) + (IF NoPageRequested THEN NonEmptySearchPages ELSE 0)
        /\ SearchedTypes = SUBSCRIBER_TYPES
        /\ \A i \in 1..Len(SearchReqs) :
              /\ SearchReqs[i].method = "POST"
              /\ SearchReqs[i].body.conditions[1] = NameIsCondition

\* The call returned after six search requests: two searches had a non-empty
\* page.
C9_Witness ==
    /\ BareNameSearchDone
    /\ NoPageRequested
    /\ Len(SearchReqs) = 6
    /\ NonEmptySearchPages = 2

(***************************************************************************)
(* Properties of the entity mappers (specification SpecMap).               *)
(***************************************************************************)
\* create returned: every item of the body became an entity.
Built == fout.kind = "mapped" /\ fout.result.t \in {"obj", "list"}

Items == fin.data.items

\* The request body the mapper hands to _create for the items of the body.
BodyForItems == IF fin.data.t = "list" THEN fin.request_body ELSE NoBody

\* The optional recognized keys of the i-th item that are present with null.
NullKeys(i) ==
    {key \in DOMAIN KeysOf[fin.obj_type] : key \in DOMAIN Items[i] /\ Items[i][key] = None}

\* The result of mapping the i-th item alone with one key removed.
WithoutKey(i, key) ==
    _create_obj(fin.obj_type, [t |-> "obj", items |-> <<Without(Items[i], key)>>],
                BodyForItems)

AttrOf(entity, key) == entity.a[KeysOf[fin.obj_type][key]]

\* C6, as claimed. The attribute mapped from a key that is present with null
\* is the attribute mapped from the same payload with the key removed.
C6_NullEqualsAbsent ==
    Built =>
        \A i \in 1..Len(Items) : \A key \in NullKeys(i) :
            /\ WithoutKey(i, key).t = "obj"
            /\ AttrOf(fout.result.value[i], key) = AttrOf(WithoutKey(i, key).value[1], key)

\* The payloads of the body can be built but for the key under test.
OnlyNullCampaignFails(i) ==
    /\ fin.obj_type = "CONTACT"
    /\ "contactId" \in DOMAIN Items[i]
    /\ SubscribersType(BodyForItems) \in Range(SUBSCRIBER_TYPES)
    /\ "campaign" \in NullKeys(i)

\* C6, amended. A removed key leaves the attribute None. A key present with
\* null gives False, or None for the date keys createdOn and changedOn (the
\* only keys for which null and removed give the same attribute); both are
\* false values. For the Contact's nested 'campaign' key a null value builds
\* no contact (TypeError), while the removed key leaves the attribute None.
C6_NullIsFalseAbsentIsNone ==
    /\ Built =>
          \A i \in 1..Len(Items) : \A key \in NullKeys(i) :
              /\ key # "campaign"
              /\ AttrOf(fout.result.value[i], key) = (IF key \in DateKeys THEN None ELSE False)
              /\ WithoutKey(i, key).t = "obj"
              /\ AttrOf(WithoutKey(i, key).value[1], key) = None
    /\ (fout.kind = "mapped" /\ OnlyNullCampaignFails(1)) =>
          /\ fout.result.t = "raise"
          /\ fout.result.exc = "TypeError"
          /\ WithoutKey(1, "campaign").t = "obj"
          /\ AttrOf(WithoutKey(1, "campaign").value[1], "campaign") = None

\* A tag whose color is null has been built.
C6_Witness ==
    /\ Built
    /\ fin.obj_type = "TAG"
    /\ "color" \in NullKeys(1)
    /\ fout.result.value[1].a["color"] = False

LacksId(i) == IdKeyOf[fin.obj_type] \notin DOMAIN Items[i]

\* C7. Mapping a body one of whose items lacks the id key builds nothing:
\* create raises, with KeyError when the item is the first of the body.
C7_MandatoryId ==
    (fout.kind = "mapped" /\ \E i \in 1..Len(Items) : LacksId(i)) =>
        /\ fout.result.t = "raise"
        /\ fout.result.value = <<>>
        /\ LacksId(1) => fout.result.exc = "KeyError"

\* A list whose second item lacks the id key has been refused.
C7_Witness ==
    /\ fout.kind = "mapped"
    /\ fin.data.t = "list"
    /\ Len(Items) = 2
    /\ ~LacksId(1) /\ LacksId(2)
    /\ fout.result.t = "raise"
    /\ fout.result.exc = "KeyError"

ErrorKind(code) ==
    IF code = 1000 THEN "ValidationError"
    ELSE IF code = 1001 THEN "RelatedRecordNotFoundError"
    ELSE IF code = 1002 THEN "ForbiddenError"
    ELSE IF code = 1008 THEN "UniquePropertyError"
    ELSE IF code = 1013 THEN "NotFoundError"
    ELSE "Exception"

FailedGetPost ==
    /\ fout.kind = "dispatched"
    /\ fin.http_method \in {"GET", "POST"}
    /\ fin.response.status \notin {200, 201, 202, 203, 204, 205, 206, 207, 208, 226}

DispatchedBy(methods) == fout.kind = "dispatched" /\ fin.http_method \in methods

HasFailureStatus ==
    fin.response.status \notin {200, 201, 202, 203, 204, 205, 206, 207, 208, 226}

\* C11. A GET or POST answered with status 202 returns True: it raises
\* nothing and builds no entity from the body, whatever the object type and
\* whatever the body holds.
C11_AcceptedIsPending ==
    (DispatchedBy({"GET", "POST"}) /\ fin.response.status = 202) =>
        /\ fout.result.t = "True"
        /\ fout.result.exc = ""
        /\ fout.result.value = <<>>

\* A 202 whose body could not be mapped to a contact (it has no contactId)
\* has been answered with True.
C11_Witness ==
    /\ DispatchedBy({"GET", "POST"})
    /\ fin.response.status = 202
    /\ fin.obj_type = "CONTACT"
    /\ "contactId" \notin DOMAIN fin.response.items[1]
    /\ fout.result.t = "True"

\* The error carries the upstream message and the whole error payload.
CarriesError ==
    /\ fout.result.t = "raise"
    /\ fout.result.msg.message = fin.response.error.message
    /\ fout.result.msg.repr = fin.response.error

\* C12, as claimed. GET, POST and DELETE raise an error carrying the
\* upstream message and the error payload for every status outside the
\* success set, and return no value.
C12_EveryFailureRaises ==
    (DispatchedBy({"GET", "POST", "DELETE"}) /\ HasFailureStatus) => CarriesError

\* C12, amended. GET and POST raise for every status outside the success
\* set an error carrying the upstream message and the error payload, one of
\* the five typed errors for the five known codes and a plain Exception
\* for any other code; DELETE raises for no status and returns None.
C12_FailureRaisesButForDelete ==
    /\ (DispatchedBy({"GET", "POST"}) /\ HasFailureStatus) =>
          /\ CarriesError
          /\ fout.result.exc \in
                {"ValidationError", "RelatedRecordNotFoundError", "NotFoundError",
                 "ForbiddenError", "UniquePropertyError", "Exception"}
          /\ fout.result.exc = "Exception" <=>
                fin.response.error.code \notin {1000, 1001, 1002, 1008, 1013}
    /\ (DispatchedBy({"DELETE"}) /\ HasFailureStatus) =>
          /\ fout.result.t = "None"
          /\ fout.result.exc = ""

\* A DELETE answered 404 with code 1013 has returned None.
C12_Witness ==
    /\ DispatchedBy({"DELETE"})
    /\ fin.response.status = 404
    /\ fin.response.error.code = 1013
    /\ fout.result.t = "None"

Aggregating == call.op = "get_all_contacts"

\* The subscriber types the call goes through, in the order given.
GivenTypes ==
    IF call.subscriber_types = <<>>
    THEN <<"subscribed", "undelivered", "removed", "unconfirmed">>
    ELSE call.subscriber_types

TypeOf(request) == request.body.subscribersType[1]

TypeIndex(request) == CHOOSE k \in 1..Len(GivenTypes) : GivenTypes[k] = TypeOf(request)

\* The answers to the search requests: the campaign listing, if any, comes
\* before the first search.
SearchResps == SubSeq(resps, Len(reqs) - Len(SearchReqs) + 1, Len(resps))

\* The subscriber type each item of the search answers was asked for.
RECURSIVE TypesOfItems(_, _)
TypesOfItems(requests, responses) ==
    IF responses = <<>> THEN <<>>
    ELSE [j \in 1..Len(responses[1].items) |-> TypeOf(requests[1])]
         \o TypesOfItems(Tail(requests), Tail(responses))

\* C14. get_all_contacts searches the subscriber types in the order given:
\* the first search request is for the first type, every later one for the
\* type of the request before it or for the next type; when it returns,
\* all types have been searched and the result is the contacts of the
\* search answers in request order, the order inside each page kept, each
\* with the subscriber type it was searched for.
C14_AggregationOrder ==
    Aggregating =>
        /\ \A i \in 1..Len(SearchReqs) :
              /\ TypeOf(SearchReqs[i]) \in Range(GivenTypes)
              /\ i = 1 => TypeIndex(SearchReqs[i]) = 1
              /\ i > 1 => TypeIndex(SearchReqs[i]) - TypeIndex(SearchReqs[i - 1]) \in {0, 1}
        /\ pc = "done" =>
              /\ Len(SearchReqs) >= Len(GivenTypes)
              /\ TypeIndex(SearchReqs[Len(SearchReqs)]) = Len(GivenTypes)
              /\ ret.t = "list"
              /\ BuiltFrom(ret.value, Flatten(SearchResps))
              /\ \A j \in 1..Len(ret.value) :
                    ret.value[j].subscribers_type = TypesOfItems(SearchReqs, SearchResps)[j]

\* get_all_contacts(subscriber_types=['removed', 'subscribed']) has returned
\* the two removed contacts b, a before the subscribed contact a.
C14_Witness ==
    /\ Aggregating
    /\ call.subscriber_types = <<"removed", "subscribed">>
    /\ pc = "done"
    /\ Len(ret.value) = 3
    /\ ret.value[1].id = Str("b") /\ ret.value[1].subscribers_type = "removed"
    /\ ret.value[2].id = Str("a") /\ ret.value[2].subscribers_type = "removed"
    /\ ret.value[3].id = Str("a") /\ ret.value[3].subscribers_type = "subscribed"

(***************************************************************************)
(* Properties of the Contact mapper (specification SpecMap).               *)
(***************************************************************************)
ContactsBuilt == Built /\ fin.obj_type = "CONTACT"

HasSubscribersType == fin.request_body.present /\ fin.request_body.subscribersType # <<>>

\* The subscriber type the request body asks for.
AskedType ==
    IF HasSubscribersType THEN fin.request_body.subscribersType[1] ELSE "subscribed"

\* C15. Every contact the Contact mapper builds, from a list of contacts or
\* from a single contact object, has the first element of the request
\* body's subscribersType as its subscriber type, and 'subscribed' when the
\* request body has none.
C15_SubscriberTypeInference ==
    ContactsBuilt =>
        \A i \in 1..Len(fout.result.value) :
            fout.result.value[i].subscribers_type = AskedType

\* What the code does guarantee: the contacts of a list have the subscriber
\* type the request body asks for, a single contact is always 'subscribed'.
SubscriberTypeOfListOnly ==
    ContactsBuilt =>
        \A i \in 1..Len(fout.result.value) :
            fout.result.value[i].subscribers_type =
                (IF fin.data.t = "list" THEN AskedType ELSE "subscribed")

\* C16. Every contact built has one of the four subscriber types, and a
\* request body whose first subscribersType is none of the four makes the
\* construction of a contact fail.
C16_SubscriberTypeInvariant ==
    /\ ContactsBuilt =>
          \A i \in 1..Len(fout.result.value) :
              fout.result.value[i].subscribers_type
                  \in {"subscribed", "undelivered", "removed", "unconfirmed"}
    /\ (/\ fout.kind = "mapped"
        /\ fin.obj_type = "CONTACT"
        /\ Items # <<>>
        /\ AskedType \notin {"subscribed", "undelivered", "removed", "unconfirmed"}) =>
          fout.result.t = "raise"

\* What the code does guarantee: the four types for every contact built, and
\* the failure when the contacts come as a list.
SubscriberTypeCheckedForList ==
    /\ ContactsBuilt =>
          \A i \in 1..Len(fout.result.value) :
              fout.result.value[i].subscribers_type
                  \in {"subscribed", "undelivered", "removed", "unconfirmed"}
    /\ (/\ fout.kind = "mapped"
        /\ fin.obj_type = "CONTACT"
        /\ fin.data.t = "list"
        /\ Items # <<>>
        /\ AskedType \notin {"subscribed", "undelivered", "removed", "unconfirmed"}) =>
          fout.result.t = "raise"

(***************************************************************************)
(* The filters and campaign ids of get_all_contacts (specification Spec).  *)
(***************************************************************************)
EightOperators ==
    {"is", "is_not", "contains", "not_contains", "starts", "ends", "not_starts",
     "not_ends"}

\* The call was given a filter with an operator that is not allowed; a bare
\* string has no operator of its own.
BadOperatorGiven ==
    \/ call.name.form = "tuple" /\ call.name.operator \notin EightOperators
    \/ call.email.form = "tuple" /\ call.email.operator \notin EightOperators
    \/ \E i \in 1..Len(call.custom_fields) :
          call.custom_fields[i].operator
              \notin EightOperators \cup {"assigned", "not_assigned"}

OperatorFailure ==
    /\ pc = "raised"
    /\ ret.exc = "AssertionError"
    /\ ret.msg.message = "operator"

\* C17. get_all_contacts given a filter with an operator that is not
\* allowed issues no search request and does not return: when it ends, it
\* ends with the assertion failure about the operator.
C17_OperatorValidation ==
    (Aggregating /\ BadOperatorGiven) =>
        /\ SearchReqs = <<>>
        /\ pc # "done"
        /\ pc = "raised" => OperatorFailure

\* What the code does guarantee: no search request and no result; the
\* failure is the one about the operator unless the campaign listing, which
\* comes first when campaign_ids is omitted, has failed before.
OperatorCheckedBeforeSearch ==
    (Aggregating /\ BadOperatorGiven) =>
        /\ SearchReqs = <<>>
        /\ pc # "done"
        /\ (pc = "raised" /\ (call.campaign_ids # <<>> \/ IsPage(resps[Len(resps)]))) =>
              OperatorFailure

\* When the operators are allowed, the call gets to its searches: a bare
\* string name is searched with the operator 'is'.
BareStringIsAllowed ==
    (Aggregating /\ call.name.form = "str" /\ ~BadOperatorGiven) =>
        /\ ~OperatorFailure
        /\ \A i \in 1..Len(SearchReqs) : SearchReqs[i].body.conditions[1].operator = "is"

IsListing(request) == request.path = "/campaigns"

ListingReqs == SelectSeq(reqs, IsListing)

\* The answers to the campaign listing: its requests come first.
ListingResps == SubSeq(resps, 1, Len(ListingReqs))

ListedIds == [j \in 1..Len(Flatten(ListingResps)) |-> Flatten(ListingResps)[j]["campaignId"]]

\* C18. get_all_contacts without campaign_ids lists the campaigns with no
\* filter, page after page from page 1 until an empty page, before its
\* first search, and every search request has the ids of the campaigns
\* listed, in listing order, as its campaignIdsList; with campaign_ids
\* given it lists no campaigns and searches with the ids given.
C18_DefaultCampaignIds ==
    Aggregating =>
        IF call.campaign_ids = <<>>
        THEN /\ \A i \in 1..Len(ListingReqs) :
                  /\ reqs[i] = ListingReqs[i]
                  /\ ListingReqs[i].method = "GET"
                  /\ ListingReqs[i].params = [x \in {"page"} |-> PInt(i)]
             /\ SearchReqs # <<>> =>
                  /\ ExhaustedAnswer(ListingResps)
                  /\ \A i \in 1..Len(SearchReqs) :
                        SearchReqs[i].body.campaignIdsList = ListedIds
        ELSE /\ ListingReqs = <<>>
             /\ \A i \in 1..Len(SearchReqs) :
                   SearchReqs[i].body.campaignIdsList = call.campaign_ids

\* A search for the campaigns b, a, a, listed in two pages, has been issued.
C18_Witness ==
    /\ Aggregating
    /\ call.campaign_ids = <<>>
    /\ Len(ListingReqs) = 3
    /\ SearchReqs # <<>>
    /\ SearchReqs[1].body.campaignIdsList = <<Str("b"), Str("a"), Str("a")>>

(***************************************************************************)
(* The query parameters of the page requests (specification Spec).         *)
(***************************************************************************)
\* A per-page value is resolved: the per_page argument is set (search_contacts
\* has 100 when the caller passes none), or params has the key 'perPage'.
PerPageResolved == Truthy(call.per_page) \/ "perPage" \in DOMAIN call.params

PerPageValue == IF Truthy(call.per_page) THEN call.per_page ELSE call.params["perPage"]

\* C19. In a paginated list call with a per-page value, from the argument
\* or from params, every page request carries perPage, equal to that value
\* as an integer, the same in every request of the call.
C19_PerPageInEveryRequest ==
    (TopPaged /\ PerPageResolved) =>
        \A i \in 1..Len(reqs) :
            /\ "perPage" \in DOMAIN reqs[i].params
            /\ reqs[i].params["perPage"] = PInt(PerPageValue.n)

\* A call with params={'perPage': '60'} has issued two requests with
\* perPage = 60.
C19_Witness ==
    /\ TopPaged
    /\ "perPage" \in DOMAIN call.params
    /\ call.params["perPage"] = NumStr(60)
    /\ Len(reqs) = 2
    /\ reqs[1].params["perPage"] = PInt(60)
    /\ reqs[2].params["perPage"] = PInt(60)

(***************************************************************************)
(* get_campaign_contacts (specification Spec).                             *)
(***************************************************************************)
CampaignContactsCalled == call.op = "get_campaign_contacts"

\* C20. The request of get_campaign_contacts(campaign_id, params) goes to
\* /campaigns/{campaign_id}/contacts and carries the caller's params as its
\* query parameters.
C20_CampaignContactsParams ==
    CampaignContactsCalled =>
        /\ Len(reqs) = 1
        /\ reqs[1].method = "GET"
        /\ reqs[1].path = CampaignContactsPath[call.campaign_ids[1].v]
        /\ reqs[1].params = call.params

\* What the code does: the one request goes to the campaign's contacts
\* with no query parameters, whatever params holds.
CampaignContactsParamsDropped ==
    CampaignContactsCalled =>
        /\ Len(reqs) = 1
        /\ reqs[1].method = "GET"
        /\ reqs[1].path = CampaignContactsPath[call.campaign_ids[1].v]
        /\ reqs[1].params = NoParams

(***************************************************************************)
(* search_contacts with its pagination in params (specification Spec).    *)
(***************************************************************************)
\* search_contacts(body, params={'perPage': ..., 'page': ...}): no per_page
\* and no page argument, a perPage within 1..1000.
SearchPagedByParams ==
    /\ call.op = "search_contacts"
    /\ ~call.per_page_given
    /\ call.page = PNone
    /\ {"perPage", "page"} \subseteq DOMAIN call.params
    /\ ~OutOfRange(call.params["perPage"])

\* C21. search_contacts called with perPage and page only inside params does
\* not fail on its arguments, and issues one search request, with the
\* perPage and the page of params.
C21_SearchPagedByParams ==
    SearchPagedByParams =>
        /\ ~PreconditionFailure
        /\ Len(reqs) <= 1
        /\ pc \in {"done", "raised"} => Len(reqs) = 1
        /\ \A i \in 1..Len(reqs) :
              /\ reqs[i].path = "/search-contacts/contacts"
              /\ reqs[i].params["perPage"] = PInt(call.params["perPage"].n)
              /\ reqs[i].params["page"] = PInt(call.params["page"].n)

\* What the code does: per_page is 100 when the caller passes none, so a
\* 'perPage' in params is a duplicate and the call fails before any request.
SearchPerPageInParamsRejected ==
    (call.op = "search_contacts" /\ ~call.per_page_given
        /\ "perPage" \in DOMAIN call.params) =>
        /\ PreconditionFailure
        /\ ret.msg.message = "perPage duplicate"
        /\ reqs = <<>>

(***************************************************************************)
(* Null values of optional keys (specification SpecMap).                   *)
(***************************************************************************)
\* The payload without its keys that are present with null.
WithoutNulls(payload) ==
    [key \in {k \in DOMAIN payload : payload[k] # None} |-> payload[key]]

\* The body can be mapped once its nulls are removed: the nulls are all
\* that could break the construction.
MappableButForNulls ==
    /\ fout.kind = "mapped"
    /\ _create_obj(fin.obj_type,
                   [t |-> fin.data.t,
                    items |-> [i \in 1..Len(Items) |-> WithoutNulls(Items[i])]],
                   fin.request_body).t # "raise"

\* C22. A payload with the id key whose optional recognized keys may be
\* null, the Contact's 'campaign' and the date keys included, is built, and
\* the attribute of each null key is a false value (None or False).
C22_NullNeverBreaks ==
    MappableButForNulls =>
        /\ fout.result.t # "raise"
        /\ \A i \in 1..Len(Items) : \A key \in NullKeys(i) :
              AttrOf(fout.result.value[i], key) \in {None, False}

\* What the code does guarantee: the same, for every key but the Contact's
\* 'campaign'.
NullBreaksOnlyCampaign ==
    (MappableButForNulls /\ \A i \in 1..Len(Items) : "campaign" \notin NullKeys(i)) =>
        /\ fout.result.t # "raise"
        /\ \A i \in 1..Len(Items) : \A key \in NullKeys(i) :
              AttrOf(fout.result.value[i], key) \in {None, False}

\* A null 'campaign' is the TypeError of CampaignManager.create(False).
NullCampaignIsTypeError ==
    (MappableButForNulls /\ "campaign" \in NullKeys(1)) =>
        fout.result.t = "raise" /\ fout.result.exc = "TypeError"

(***************************************************************************)
(* The caller's params mapping (specification Spec).                       *)
(***************************************************************************)
\* C23. During and after a paginated list call, returned or failed, the
\* mapping the caller passed as params holds what it held at the call: the
\* resolved perPage and the page number are written to copies only.
C23_CallerParamsUnchanged ==
    TopPaged =>
        /\ frame.params_now = call.params
        /\ pc = "fetch" => frame.paged_owner = "call"

\* A call with params={'perPage': '60'} has returned after two requests; its
\* own copy holds perPage = 60 and the page number.
C23_Witness ==
    /\ TopPaged
    /\ pc = "done"
    /\ DOMAIN call.params = {"perPage"}
    /\ call.params["perPage"] = NumStr(60)
    /\ Len(reqs) = 2
    /\ frame.paged_payload = [perPage |-> PInt(60), page |-> PInt(2)]
    /\ frame.params_now = call.params

(***************************************************************************)
(* Errors and 202 during pagination (specification Spec).                  *)
(***************************************************************************)
IsFailure(response) ==
    response.status \notin {200, 201, 202, 203, 204, 205, 206, 207, 208, 226}

\* C24. In a paginated list call and in get_all_contacts, a page request
\* answered with a failure is the last request of the call: the call has
\* raised the error of that answer and returns no item, whatever the
\* earlier pages and subscriber types gave.
C24_NoPartialResult ==
    (TopPaged \/ Aggregating) =>
        \A i \in 1..Len(resps) :
            IsFailure(resps[i]) =>
                /\ i = Len(resps)
                /\ Len(reqs) = Len(resps)
                /\ pc = "raised"
                /\ ret.t = "raise"
                /\ ret.exc = ErrorKind(resps[i].error.code)
                /\ ret.msg.message = resps[i].error.message
                /\ ret.msg.repr = resps[i].error
                /\ ret.value = <<>>

\* get_all_contacts has raised NotFoundError on a later search, after an
\* earlier subscriber type gave contacts.
C24_Witness ==
    /\ Aggregating
    /\ pc = "raised"
    /\ agg.all_contacts # <<>>
    /\ frame.all # <<>>
    /\ IsFailure(resps[Len(resps)])
    /\ ret.exc = "NotFoundError"
    /\ ret.value = <<>>

\* A page request of the call was answered with 202.
AcceptedDuringPaging == \E i \in 1..Len(resps) : resps[i].status = 202

\* C25. A paginated list call with a page request answered 202 does not
\* fail with an unhandled error, and what a paginated call returns is a
\* list of mapped entities only.
C25_AcceptedDuringPaging ==
    TopPaged =>
        /\ AcceptedDuringPaging => ~(pc = "raised" /\ ret.exc = "TypeError")
        /\ pc = "done" =>
              /\ ret.t = "list"
              /\ \A j \in 1..Len(ret.value) : ret.value[j].cls \in {"Campaign", "Contact", "CustomField", "Tag"}

\* What the code does: the 202 is the last answer of the call, which fails
\* with the TypeError of extend(True); a call that returns has had no 202
\* and returns mapped entities only.
AcceptedIsTypeError ==
    TopPaged =>
        /\ AcceptedDuringPaging =>
              /\ resps[Len(resps)].status = 202
              /\ pc = "raised"
              /\ ret.exc = "TypeError"
        /\ pc = "done" =>
              /\ ~AcceptedDuringPaging
              /\ ret.t = "list"
              /\ \A j \in 1..Len(ret.value) : ret.value[j].cls \in {"Campaign", "Contact", "CustomField", "Tag"}

(***************************************************************************)
(* Termination of the pagination (specification SpecPaged).                *)
(***************************************************************************)
OnlyNonEmptyPagesSoFar ==
    /\ resps # <<>>
    /\ \A i \in 1..Len(resps) : IsNonEmptyPage(resps[i])

\* A non-empty page, however few items it holds, is followed by the request
\* for the next page: while every answer was a non-empty page the call has
\* not returned and is about to ask for the page after the last one.
NonEmptyPageIsFollowed ==
    (TopPaged /\ NoPageRequested /\ MappableBody /\ OnlyNonEmptyPagesSoFar) =>
        /\ pc = "fetch"
        /\ frame.current_page = PInt(Len(resps) + 1)
        /\ \A i \in 1..Len(reqs) : reqs[i].params["page"] = PInt(i)

\* A call that has ended has ended on an empty page or on a failure.
EndsOnlyOnEmptyOrFailure ==
    (TopPaged /\ NoPageRequested /\ pc \in {"done", "raised"} /\ resps # <<>>) =>
        /\ pc = "done" => IsEmptyPage(resps[Len(resps)])
        /\ pc = "raised" => ~OnlyNonEmptyPagesSoFar \/ ~MappableBody

\* C26. A paginated list call with no page requested, served by an upstream
\* that runs out of non-empty pages, returns or raises in the end; until
\* then every non-empty page is followed by the request for the next page
\* number, and the call ends only on an empty page or on a failure.
C26_PaginationTermination ==
    /\ [](NonEmptyPageIsFollowed /\ EndsOnlyOnEmptyOrFailure)
    /\ (TopPaged /\ NoPageRequested /\ pc = "fetch") ~> (pc \in {"done", "raised"})

\* A call has returned after the pages 1 and 2, of one item each, and the
\* empty page 3.
C26_Witness ==
    /\ TopPaged /\ NoPageRequested
    /\ pc = "done"
    /\ Len(reqs) = 3
    /\ Len(resps[1].items) = 1
    /\ Len(resps[2].items) = 1
    /\ reqs[3].params["page"] = PInt(3)

====
